---- MODULE Spec2Model ----
(***************************************************************************)
(* A model of the two dashboard scripts of the repository.                 *)
(*                                                                         *)
(*   page_3Dmap-1.py  upload a CSV, expand every row's visitor count into  *)
(*                    jittered points, show a hexagon map, then a DEM map. *)
(*   page_3Dmap-2.py  load a cached poverty dataset, offer its years,      *)
(*                    plot the selected year on a globe.                   *)
(*                                                                         *)
(* A Streamlit script is re-executed top to bottom on every interaction,   *)
(* so one action of the model is one complete run of a script, preceded by *)
(* the change of widget input that triggered it.                           *)
(***************************************************************************)
EXTENDS Integers, Sequences, FiniteSets

VARIABLES
    \* ---- page_3Dmap-1.py ----
    secrets_file,  \* a secrets file exists for st.secrets to read
    hasKey,        \* the secrets hold MAPBOX_API_KEY
    csv,           \* the CSV file the user holds: [ok, rows]
    uploaded,      \* uploaded_file is not None
    scale_factor,  \* value of the slider
    ran,           \* the script has run at least once in this session
    points,        \* the list `points` as the last run left it
    emitted,       \* per row of the CSV, the points the last run appended for it
    gen_raised,    \* the last run raised inside the generation loop
    trigger,       \* what made the script run last
    stops,         \* the st.stop() calls the last run made
    shown,         \* the elements the last run displayed
    \* ---- guess_column ----
    name_list, columns, guessed,
    \* ---- page_3Dmap-2.py ----
    disk,          \* content of ORIGINAL_CSV_FILE: [kind, rows]
    present,       \* the file exists at file_path
    cache,         \* st.cache_data entry of load_and_clean_data(file_path)
    body_runs,     \* number of executions of the body of load_and_clean_data
    first_load,    \* what the first call of load_and_clean_data returned
    loaded,        \* (df_countries, available_years) of the last run
    uncached,      \* what the body would have returned at the last call
    selected_year, \* value of the year selectbox in the last run (0: none)
    shown2         \* the elements the last run of page 2 displayed

vars1 == <<secrets_file, hasKey, csv, uploaded, scale_factor, ran, points, emitted, gen_raised,
           trigger, stops, shown>>
varsG == <<name_list, columns, guessed>>
vars2 == <<disk, present, cache, body_runs, first_load, loaded, uncached, selected_year, shown2>>
vars  == <<vars1, varsG, vars2>>

\* ------------------------------------------------------------------ bounds
MaxRows == 2        \* rows of an uploaded CSV
MaxRows2 == 3       \* rows of the poverty CSV
MaxCols == 2        \* columns offered to guess_column
MaxNames == 2       \* candidate substrings passed to guess_column

\* --------------------------------------------------------- program constants
SliderMax == 5000
SliderDefault == 100

\* ------------------------------------------------------------------ values
\* A CSV cell as read: a number, a non-numeric string, an empty cell, or
\* an infinity ("inf" / "-inf", v is the sign).
Num(v)  == [k |-> "num", v |-> v]
Text    == [k |-> "text", v |-> 0]
Missing == [k |-> "missing", v |-> 0]
Inf(sg) == [k |-> "inf", v |-> sg]
NaN     == [k |-> "nan", v |-> 0]

Abs(x) == IF x < 0 THEN -x ELSE x

\* pd.to_numeric(x, errors='coerce'): what cannot be parsed becomes NaN;
\* "inf" parses to a float infinity.
to_numeric(c) == IF c.k \in {"text", "missing"} THEN NaN ELSE c

isna(x) == x.k = "nan"

\* weight / scale_factor followed by int(): raises on a zero divisor
\* (ZeroDivisionError, or inf/nan handed to int()) and on an infinite weight
\* (OverflowError: cannot convert float infinity to integer).
IntRaises(weight, s) == s = 0 \/ weight.k = "inf"

\* int(weight / scale_factor): int() truncates toward zero.
num_points(weight, s) ==
    IF (weight.v >= 0) = (s > 0)
    THEN Abs(weight.v) \div Abs(s)
    ELSE -(Abs(weight.v) \div Abs(s))

\* np.random.randn() / 500, as an offset in model units.
Jitter == {-1, 1}

\* lat + np.random.randn() / 500
AddJitter(x, j) == IF x.k = "num" THEN Num(x.v + j) ELSE x

\* The inner loop: range(num_points) appends that many jittered points
\* (none when num_points <= 0).
RowPoints(lat, lon, n) ==
    IF n <= 0 THEN {<<>>}
    ELSE [1..n -> {[lat |-> AddJitter(lat, j1), lon |-> AddJitter(lon, j2)] :
                      j1 \in Jitter, j2 \in Jitter}]

\* Per-row counts padded with 0 for the rows the loop did not reach.
RECURSIVE Pad(_, _)
Pad(cnt, n) == IF Len(cnt) >= n THEN cnt ELSE Pad(Append(cnt, 0), n)

\* The outer loop over data.iterrows(), from row i on, with pts collected so
\* far (cnt: how many each earlier row appended): every outcome the random
\* draws allow.
RECURSIVE GenPoints(_, _, _, _, _)
GenPoints(data, s, i, pts, cnt) ==
    IF i > Len(data) THEN {[points |-> pts, counts |-> cnt, raised |-> FALSE]}
    ELSE LET lat    == to_numeric(data[i].lat)
             lon    == to_numeric(data[i].lon)
             weight == to_numeric(data[i].weight)
         IN  IF isna(weight) \/ isna(lat) \/ isna(lon)
             THEN GenPoints(data, s, i + 1, pts, Append(cnt, 0))
             ELSE IF IntRaises(weight, s)
             THEN {[points |-> pts, counts |-> Pad(cnt, Len(data)), raised |-> TRUE]}
             ELSE UNION { GenPoints(data, s, i + 1, pts \o new, Append(cnt, Len(new))) :
                             new \in RowPoints(lat, lon, num_points(weight, s)) }

\* points = [] at the head of the generation step: nothing of an earlier run
\* is kept.
InitialPointsStale(prev) == prev
InitialPoints(prev) == <<>>

\* except Exception: st.stop() raises a control exception that derives from
\* BaseException, so the handler does not catch it.
CaughtByExceptAll(exc) == TRUE
CaughtByExcept(exc) == exc = "Exception"

\* data[lat_col].mean() / data[lon_col].mean(): a column holding a
\* non-numeric string is an object column, whose mean raises TypeError.
MeanRaises(data) ==
    \E i \in 1..Len(data) : data[i].lat.k = "text" \/ data[i].lon.k = "text"

Outcome(pts, cnt, raised, st, sh) ==
    [points |-> pts, emitted |-> cnt, gen_raised |-> raised, stops |-> st, shown |-> sh]

\* The try block of step 4 and 5 and its handler: the outcomes of one
\* execution, halted telling whether st.stop() ended the run.
TryBlock(data, s, prev) ==
    { IF g.raised
      THEN [o |-> Outcome(g.points, g.counts, TRUE, {},
                          {"progress"} \cup
                          (IF CaughtByExcept("Exception") THEN {"proc_error"} ELSE {})),
            halted |-> ~CaughtByExcept("Exception")]
      ELSE IF g.points = <<>>
      THEN [o |-> Outcome(g.points, g.counts, FALSE, {"zero"},
                          {"progress", "zero_warning"} \cup
                          (IF CaughtByExcept("StopException") THEN {"proc_error"} ELSE {})),
            halted |-> ~CaughtByExcept("StopException")]
      ELSE IF MeanRaises(data)
      THEN [o |-> Outcome(g.points, g.counts, FALSE, {},
                          {"progress", "success"} \cup
                          (IF CaughtByExcept("Exception") THEN {"proc_error"} ELSE {})),
            halted |-> ~CaughtByExcept("Exception")]
      ELSE [o |-> Outcome(g.points, g.counts, FALSE, {}, {"progress", "success", "hexagon"}),
            halted |-> FALSE]
      : g \in GenPoints(data, s, 1, InitialPoints(prev), <<>>) }

\* The second map is built from constants and displayed by the last line.
DemMap == {"dem_title", "dem"}

\* One run of page_3Dmap-1.py, top to bottom.
ScriptRun(secrets, key, file, up, s, prev) ==
    IF ~secrets
    THEN \* st.secrets raises when there is no secrets file: the run ends at line 9
         {Outcome(<<>>, <<>>, FALSE, {}, {"title", "exception"})}
    ELSE IF ~key
    THEN {Outcome(<<>>, <<>>, FALSE, {"key"}, {"title", "key_error"})}
    ELSE IF ~up
    THEN {Outcome(<<>>, <<>>, FALSE, {}, {"title", "uploader", "upload_info"} \cup DemMap)}
    ELSE IF ~file.ok
    THEN {Outcome(<<>>, <<>>, FALSE, {"read"}, {"title", "uploader", "read_error"})}
    ELSE { [t.o EXCEPT !.shown =
                {"title", "uploader", "preview", "selectboxes", "slider"} \cup @
                \cup (IF t.halted THEN {} ELSE DemMap)]
           : t \in TryBlock(file.rows, s, prev) }

\* ------------------------------------------------------------- inputs, page 1
LatCells    == {Num(22), Text, Inf(1)}
LonCells    == {Num(120), Missing}
WeightCells == {Num(-150), Num(0), Num(150), Text, Inf(1), Inf(-1)}
Rows        == [lat : LatCells, lon : LonCells, weight : WeightCells]
Datasets    == UNION { [1..n -> Rows] : n \in 0..MaxRows }
Files       == {[ok |-> FALSE, rows |-> <<>>]} \cup {[ok |-> TRUE, rows |-> d] : d \in Datasets}
\* Positions of the slider, within min_value..max_value.
ScaleFactors == {SliderDefault, SliderMax}

Init1 ==
    /\ secrets_file \in BOOLEAN
    /\ hasKey \in {k \in BOOLEAN : k => secrets_file}
    /\ csv \in Files
    /\ uploaded = FALSE
    /\ scale_factor = SliderDefault
    /\ ran = FALSE
    /\ points = <<>>
    /\ emitted = <<>>
    /\ gen_raised = FALSE
    /\ trigger = "none"
    /\ stops = {}
    /\ shown = {}

\* The script runs with the widget state given and leaves its outcome.
Run(up, s, why) ==
    \E o \in ScriptRun(secrets_file, hasKey, csv, up, s, points) :
        /\ uploaded' = up
        /\ scale_factor' = s
        /\ ran' = TRUE
        /\ trigger' = why
        /\ points' = o.points
        /\ emitted' = o.emitted
        /\ gen_raised' = o.gen_raised
        /\ stops' = o.stops
        /\ shown' = o.shown
        /\ UNCHANGED <<secrets_file, hasKey, csv, varsG, vars2>>

\* The session opens: first run of the script.
OpenPage == ~ran /\ Run(uploaded, scale_factor, "open")

\* The user reruns the script with every widget as it is.
Rerun == ran /\ Run(uploaded, scale_factor, "rerun")

\* The user puts the CSV into the file uploader.
UploadFile == "uploader" \in shown /\ ~uploaded /\ Run(TRUE, scale_factor, "upload")

\* The user removes the file from the uploader.
RemoveFile == "uploader" \in shown /\ uploaded /\ Run(FALSE, scale_factor, "remove")

\* The user moves the slider.
MoveSlider ==
    /\ "slider" \in shown
    /\ \E s \in ScaleFactors \ {scale_factor} : Run(uploaded, s, "slider")

\* ---------------------------------------------------------------- guess_column
\* Strings are sequences of characters.
LowerChar(c) == CASE c = "L" -> "l" [] c = "A" -> "a" [] c = "O" -> "o" [] OTHER -> c

\* str.lower()
lower(str) == [i \in 1..Len(str) |-> LowerChar(str[i])]

\* sub in str
Contains(sub, str) ==
    \E i \in 0..(Len(str) - Len(sub)) : SubSeq(str, i + 1, i + Len(sub)) = sub

\* for col in columns: if name.lower() in col.lower(): return col
\* The index of the first column from j on that holds name, 0 when none does.
RECURSIVE ScanColumns(_, _, _)
ScanColumns(name, cols, j) ==
    IF j > Len(cols) THEN 0
    ELSE IF Contains(lower(name), lower(cols[j])) THEN j
    ELSE ScanColumns(name, cols, j + 1)

\* for name in name_list: ...; return columns[0]
RECURSIVE ScanNames(_, _, _)
ScanNames(names, cols, i) ==
    IF i > Len(names) THEN cols[1]
    ELSE LET j == ScanColumns(names[i], cols, 1)
         IN  IF j > 0 THEN cols[j] ELSE ScanNames(names, cols, i + 1)

\* The loops nested the other way round: columns outside, names inside.
RECURSIVE ScanColumnsFirst(_, _, _)
ScanColumnsFirst(names, cols, j) ==
    IF j > Len(cols) THEN cols[1]
    ELSE IF \E i \in 1..Len(names) : Contains(lower(names[i]), lower(cols[j]))
         THEN cols[j]
         ELSE ScanColumnsFirst(names, cols, j + 1)

guess_column_by_column(names, cols) == ScanColumnsFirst(names, cols, 1)
guess_column(names, cols) == ScanNames(names, cols, 1)

ColumnNames == { <<"L", "A">>, <<"l", "o">>, <<"x", "L", "o">>, <<"i", "d">>,
                 <<"l", "a", "o">> }
Candidates  == { <<"l", "a">>, <<"L", "O">>, <<"z">>, <<"o">> }
\* data.columns: never empty, no name twice.
ColumnLists == { c \in UNION { [1..n -> ColumnNames] : n \in 1..MaxCols } :
                   \A i, j \in 1..Len(c) : c[i] = c[j] => i = j }
NameLists   == UNION { [1..n -> Candidates] : n \in 0..MaxNames }

InitG ==
    /\ name_list \in NameLists
    /\ columns \in ColumnLists
    /\ guessed = <<>>

\* guess_column(name_list, all_columns) is called for a selectbox default.
Guess ==
    /\ guessed = <<>>
    /\ guessed' = guess_column(name_list, columns)
    /\ UNCHANGED <<name_list, columns, vars1, vars2>>

\* -------------------------------------------------------------- page_3Dmap-2.py
\* A Code cell: a string of some length.
Str(n) == [k |-> "str", v |-> n]

Failure == [ok |-> FALSE, df |-> <<>>, years |-> <<>>]


\* sorted(values, reverse=True) of the distinct values
RECURSIVE SortedDesc(_)
SortedDesc(S) ==
    IF S = {} THEN <<>>
    ELSE LET m == CHOOSE x \in S : \A y \in S : y <= x
         IN  <<m>> \o SortedDesc(S \ {m})

\* df.dropna(subset=[DATA_COLUMN])
HasData(r) == ~isna(to_numeric(r.val))
DropNoData(df) == SelectSeq(df, HasData)

\* Year coerced to a number, rows without one dropped.
HasYear(r) == ~isna(to_numeric(r.Year))
\* Code present and of 3 characters.
IsCountry(r) == r.Code.k = "str" /\ r.Code.v = 3

\* The rows available_years is taken from: only those with a data value.
YearsSourceAll(df_countries) == df_countries
YearsSource(df_countries) == DropNoData(df_countries)

\* The body of load_and_clean_data(file_path).
LoadBody(file, there) ==
    IF ~there THEN Failure                       \* FileNotFoundError
    ELSE IF file.kind = "unreadable" THEN Failure \* any other read error
    ELSE IF file.kind = "malformed" THEN Failure  \* cleaning raised (no 'Year' column)
    ELSE LET df_clean     == SelectSeq(SelectSeq(file.rows, HasYear), LAMBDA r : r.Code.k # "missing")
             df_countries == SelectSeq(df_clean, IsCountry)
             df_with_data == YearsSource(df_countries)
         IN  [ok |-> TRUE, df |-> df_countries,
              years |-> SortedDesc({df_with_data[i].Year.v : i \in 1..Len(df_with_data)})]

\* @st.cache_data: a stored entry for the arguments is returned as it is.
CacheLookupMiss(c) == FALSE
CacheLookup(c) == c.has

\* df_countries[df_countries['Year'] == selected_year].dropna(subset=[DATA_COLUMN])
Plottable(df, year) == DropNoData(SelectSeq(df, LAMBDA r : r.Year.v = year))

Range(f) == {f[i] : i \in DOMAIN f}

\* The script after the load: what it displays for the value the selectbox
\* returns (pick when it is one of the options, the first option otherwise).
AfterLoad(r, pick, online) ==
    IF ~r.ok \/ r.years = <<>>
    THEN [year |-> 0, shown |-> {"title", "load_error"}]
    ELSE LET sel == IF pick \in Range(r.years) THEN pick ELSE r.years[1]
         IN  IF Plottable(r.df, sel) = <<>>
             THEN [year |-> sel, shown |-> {"title", "selector", "no_data_warning"}]
             ELSE [year |-> sel,
                   shown |-> {"title", "selector", "globe", "table"} \cup
                             (IF online THEN {"surface"} ELSE {"exception"})]

YearCells == {Num(2000), Num(2001), Text}
CodeCells == {Str(3), Str(8), Missing}
ValCells  == {Num(5), Missing}
Rows2     == [Year : YearCells, Code : CodeCells, val : ValCells]
Disks     == {[kind |-> "unreadable", rows |-> <<>>], [kind |-> "malformed", rows |-> <<>>]}
             \cup {[kind |-> "ok", rows |-> d] : d \in UNION { [1..n -> Rows2] : n \in 0..MaxRows2 }}

NoEntry == [has |-> FALSE, value |-> Failure]

Init2 ==
    /\ disk \in Disks
    /\ present \in BOOLEAN
    /\ cache = NoEntry
    /\ body_runs = 0
    /\ first_load = NoEntry
    /\ loaded = Failure
    /\ uncached = Failure
    /\ selected_year = 0
    /\ shown2 = {}

\* One run of page_3Dmap-2.py, the year selectbox holding pick.
Run2(pick) ==
    \E online \in BOOLEAN :
      LET hit == CacheLookup(cache)
          r   == IF hit THEN cache.value ELSE LoadBody(disk, present)
          a   == AfterLoad(r, pick, online)
      IN  /\ cache' = IF hit THEN cache ELSE [has |-> TRUE, value |-> r]
          /\ body_runs' = IF hit THEN body_runs ELSE body_runs + 1
          /\ first_load' = IF first_load.has THEN first_load ELSE [has |-> TRUE, value |-> r]
          /\ loaded' = r
          /\ uncached' = LoadBody(disk, present)
          /\ selected_year' = a.year
          /\ shown2' = a.shown
          /\ UNCHANGED <<disk, present, vars1, varsG>>

\* The session opens: first run.
OpenPage2 == shown2 = {} /\ Run2(0)

\* The user reruns the script.
Rerun2 == shown2 # {} /\ Run2(selected_year)

\* The user picks another year.
SelectYear ==
    /\ "selector" \in shown2
    /\ \E y \in Range(loaded.years) \ {selected_year} : Run2(y)

\* The file is deleted from, or put back into, the working directory.
FileRemoved ==
    /\ present /\ present' = FALSE
    /\ UNCHANGED <<disk, cache, body_runs, first_load, loaded, uncached, selected_year,
                   shown2, vars1, varsG>>
FileRestored ==
    /\ ~present /\ present' = TRUE
    /\ UNCHANGED <<disk, cache, body_runs, first_load, loaded, uncached, selected_year,
                   shown2, vars1, varsG>>

\* ------------------------------------------------------------ specifications
\* The parts of the state a specification does not use stay as they are here.
Idle1 ==
    /\ secrets_file = TRUE /\ hasKey = TRUE /\ csv = [ok |-> FALSE, rows |-> <<>>]
    /\ uploaded = FALSE
    /\ scale_factor = SliderDefault /\ ran = FALSE /\ points = <<>> /\ emitted = <<>>
    /\ gen_raised = FALSE /\ trigger = "none" /\ stops = {} /\ shown = {}
IdleG == name_list = <<>> /\ columns = <<>> /\ guessed = <<>>
Idle2 ==
    /\ disk = [kind |-> "unreadable", rows |-> <<>>] /\ present = FALSE /\ cache = NoEntry
    /\ body_runs = 0 /\ first_load = NoEntry /\ loaded = Failure /\ uncached = Failure
    /\ selected_year = 0
    /\ shown2 = {}

\* page_3Dmap-1.py in one browser session.
Init == Init1 /\ IdleG /\ Idle2
Next == OpenPage \/ Rerun \/ UploadFile \/ RemoveFile \/ MoveSlider
Spec == Init /\ [][Next]_vars

\* The generation step of page_3Dmap-1.py on its own, the scale factor any
\* integer and not only a position of the slider.
ScaleRange == {-SliderDefault, 0, SliderDefault}
InitSynth ==
    /\ secrets_file = TRUE /\ hasKey = TRUE /\ uploaded = TRUE
    /\ csv \in {f \in Files : f.ok}
    /\ scale_factor \in ScaleRange
    /\ ran = FALSE /\ points = <<>> /\ emitted = <<>> /\ gen_raised = FALSE
    /\ trigger = "none" /\ stops = {} /\ shown = {}
    /\ IdleG /\ Idle2
Synthesize ==
    /\ ~ran
    /\ \E g \in GenPoints(csv.rows, scale_factor, 1, InitialPoints(points), <<>>) :
          /\ points' = g.points
          /\ emitted' = g.counts
          /\ gen_raised' = g.raised
    /\ ran' = TRUE
    /\ UNCHANGED <<secrets_file, hasKey, csv, uploaded, scale_factor, trigger, stops, shown,
                   varsG, vars2>>
SpecSynth == InitSynth /\ [][Synthesize]_vars

\* guess_column over bounded inputs.
InitGuess == Idle1 /\ InitG /\ Idle2
SpecGuess == InitGuess /\ [][Guess]_vars

\* page_3Dmap-2.py in one server process.
InitGlobe == Idle1 /\ IdleG /\ Init2
NextGlobe == OpenPage2 \/ Rerun2 \/ SelectYear \/ FileRemoved \/ FileRestored
SpecGlobe == InitGlobe /\ [][NextGlobe]_vars

\* ---------------------------------------------------------------------- claims
\* The last run of page 1 reached the generation loop.
GenReached == ran /\ hasKey /\ uploaded /\ csv.ok

Finite(c) == to_numeric(c).k = "num"

RECURSIVE SumSeq(_)
SumSeq(q) == IF q = <<>> THEN 0 ELSE Head(q) + SumSeq(Tail(q))

\* C1: every row with numeric latitude, longitude and weight w > 0 gets
\* exactly floor(w / s) points for a scale factor s > 0, and the total is the
\* sum of the per-row counts.
C1_FloorPerRow ==
    (GenReached /\ scale_factor > 0) =>
        /\ \A i \in 1..Len(csv.rows) :
              LET r == csv.rows[i]
              IN  (Finite(r.lat) /\ Finite(r.lon) /\ Finite(r.weight) /\ r.weight.v > 0)
                  => emitted[i] = r.weight.v \div scale_factor
        /\ Len(points) = SumSeq(emitted)

\* A row the claim C2 calls excluded: weight <= 0, or weight, latitude or
\* longitude non-numeric or missing.
Excluded(r) ==
    \/ isna(to_numeric(r.weight)) \/ isna(to_numeric(r.lat)) \/ isna(to_numeric(r.lon))
    \/ (r.weight.k = "num" /\ r.weight.v <= 0)
    \/ (r.weight.k = "inf" /\ r.weight.v < 0)

Without(data, i) == SubSeq(data, 1, i - 1) \o SubSeq(data, i + 1, Len(data))

\* The per-row counts of a generation over data (the draws do not change them).
CountsOf(data, s) == (CHOOSE g \in GenPoints(data, s, 1, <<>>, <<>>) : TRUE).counts

\* C2: an excluded row gets no point, and every other row gets as many
\* points as it would get with the excluded row absent from the input.
C2_ExcludedRowsInert ==
    GenReached =>
        \A i \in 1..Len(csv.rows) :
            Excluded(csv.rows[i]) =>
                /\ emitted[i] = 0
                /\ Without(emitted, i) = CountsOf(Without(csv.rows, i), scale_factor)

\* C3: the generation step never raises, whatever the rows hold (infinite
\* and NaN values included), so the error branch is never entered for it.
C3_NeverRaises == GenReached => ~gen_raised

C5_CountDeterministic ==
    [][(ran /\ secrets_file' = secrets_file /\ hasKey' = hasKey /\ csv' = csv /\ uploaded' = uploaded
            /\ scale_factor' = scale_factor)
       => Len(points') = Len(points)]_vars

\* A rerun with unchanged inputs took place and produced points.
C5_Witness == trigger = "rerun" /\ GenReached /\ Len(points) >= 2

\* C6: when no row yields a point the run shows the zero-points warning,
\* reports no processing error and shows no hexagon map.
C6_EmptyIsWarning ==
    (GenReached /\ points = <<>>) =>
        /\ "zero_warning" \in shown
        /\ "proc_error" \notin shown
        /\ "hexagon" \notin shown

\* C7: the guess is a member of columns; when some candidate is contained
\* (case-insensitively) in some column, it is the first column containing
\* the earliest such candidate; otherwise it is the first column.
Matches(i, j) == Contains(lower(name_list[i]), lower(columns[j]))
C7_GuessPriority ==
    guessed # <<>> =>
        /\ guessed \in Range(columns)
        /\ IF \E i \in 1..Len(name_list), j \in 1..Len(columns) : Matches(i, j)
           THEN \E i \in 1..Len(name_list), j \in 1..Len(columns) :
                   /\ Matches(i, j)
                   /\ guessed = columns[j]
                   /\ \A i2 \in 1..(i - 1), j2 \in 1..Len(columns) : ~Matches(i2, j2)
                   /\ \A j2 \in 1..(j - 1) : ~Matches(i, j2)
           ELSE guessed = columns[1]

\* The second candidate decides, for a column that is not the first, while
\* the first column matches a later candidate only.
C7_Witness ==
    /\ guessed # <<>> /\ Len(name_list) >= 2 /\ Len(columns) >= 2
    /\ guessed = columns[2]
    /\ \E i \in 2..Len(name_list) : Matches(i, 1)
    /\ Matches(1, 2) /\ ~Matches(1, 1)

\* C8: the body of load_and_clean_data runs at most once, and every call
\* returns what the first call returned, the failure value included.
C8_LoadedOnce ==
    /\ body_runs <= 1
    /\ first_load.has => loaded = first_load.value

\* A later call returned the cached failure although the file is there and
\* would now load.
C8_Witness ==
    /\ body_runs = 1 /\ first_load.has /\ first_load.value = Failure
    /\ loaded = Failure /\ uncached.ok /\ uncached.years # <<>>

\* C9: past the load-failure stop the year list is non-empty and strictly
\* descending (so free of duplicates), every year of it has a row with a
\* 3-character code and a data value, and the table for the selected year
\* is non-empty: the no-data warning is never shown.
C9_YearsPlottable ==
    "selector" \in shown2 =>
        /\ loaded.years # <<>>
        /\ \A i \in 1..(Len(loaded.years) - 1) : loaded.years[i] > loaded.years[i + 1]
        /\ \A y \in Range(loaded.years) :
              \E i \in 1..Len(loaded.df) :
                  /\ loaded.df[i].Year.v = y
                  /\ loaded.df[i].Code = Str(3)
                  /\ loaded.df[i].val.k = "num"
        /\ selected_year \in Range(loaded.years)
        /\ Plottable(loaded.df, selected_year) # <<>>
        /\ "no_data_warning" \notin shown2

\* A year was selected among two, with a country row lacking a value in the table.
C9_Witness ==
    /\ "globe" \in shown2 /\ Len(loaded.years) = 2 /\ selected_year = loaded.years[2]
    /\ \E i \in 1..Len(loaded.df) : loaded.df[i].val.k = "missing"

\* C10: the DEM map is displayed exactly when none of the three stops
\* occurred (missing key, CSV read failure, zero points): so it is shown
\* with no file uploaded and after a caught processing error, not shown
\* with the zero-points warning, and without the key neither the uploader
\* nor any map is shown.
C10_DemUnlessStopped ==
    ran =>
        /\ "dem" \in shown <=>
              ~(\/ ~hasKey
                \/ (hasKey /\ uploaded /\ ~csv.ok)
                \/ "zero_warning" \in shown)
        /\ stops # {} => "dem" \notin shown
        /\ (hasKey /\ ~uploaded) => "dem" \in shown
        /\ "proc_error" \in shown => "dem" \in shown
        /\ "zero_warning" \in shown => "dem" \notin shown
        /\ ~hasKey => shown \cap {"uploader", "hexagon", "dem"} = {}

\* A processing error was caught and reported, and the DEM map followed.
C10_Witness == ran /\ "proc_error" \in shown /\ "dem" \in shown /\ gen_raised

====
